---- MODULE Spec2Model ----
(***************************************************************************)
(* A model of pyopls.OPLS (src/pyopls/opls.py): one estimator instance,    *)
(* the arrays its caller owns, and one action per public method.           *)
(*                                                                         *)
(* Arithmetic.  numpy's float64 values are modelled by exact numbers of    *)
(* the form (n/d)*sqrt(r), r squarefree, plus NaN.  The only irrational    *)
(* operations of the code are the sample standard deviation and the        *)
(* Euclidean norm, both square roots of rationals, so every value the      *)
(* code computes on the inputs used here has this form.  An operation      *)
(* whose result would leave the form (a sum of two different radicals, a   *)
(* non-zero value divided by zero) is an evaluation error, never a wrong   *)
(* value.  Rounding is not modelled.                                       *)
(*                                                                         *)
(* Arrays.  An ndarray is a record [dtype, a]: a is the sequence of its    *)
(* rows (2-D) and dtype is "int" or "float".  1-D arrays that live in the  *)
(* model state (x_mean_, x_std_, ...) are plain sequences of numbers.      *)
(***************************************************************************)
EXTENDS Integers, Sequences, FiniteSets, TLC

\* The largest n_components an instance is constructed with.
MaxComponents == 2

\* Python's None.
None == <<>>

\* An evaluation error: the value is outside the modelled number form.
Unrepresentable == CHOOSE v \in {} : TRUE

\* The element of a one-element set.  Only({e(x) : x \in {v}}) is e with x
\* bound to the value of v, as a Python assignment binds a name: v is
\* computed once, before e.  The operators of several statements below are
\* written this way and read from the last line up.
Only(S) == CHOOSE v \in S : TRUE

-----------------------------------------------------------------------------
(* Numbers: (n/d)*sqrt(r) with d > 0, gcd(n,d) = 1, r squarefree; NaN.     *)

RECURSIVE GCD(_, _)
GCD(a, b) == IF b = 0 THEN a ELSE GCD(b, a % b)

Abs(i) == IF i < 0 THEN -i ELSE i

NaN == [n |-> 0, d |-> 0, r |-> 0]
IsNaN(x) == x.d = 0

Zero == [n |-> 0, d |-> 1, r |-> 1]
One == [n |-> 1, d |-> 1, r |-> 1]

\* n/d * sqrt(r) in lowest terms, for d # 0 and r squarefree
Mk(n, d, r) ==
    IF n = 0 THEN Zero
    ELSE LET g == GCD(Abs(n), Abs(d))
             s == IF d < 0 THEN -1 ELSE 1
         IN  [n |-> s * (n \div g), d |-> s * (d \div g), r |-> r]

Int2Num(i) == [n |-> i, d |-> 1, r |-> 1]
Rat(n, d) == Mk(n, d, 1)

IsZero(x) == ~IsNaN(x) /\ x.n = 0

Neg(x) == IF IsNaN(x) THEN NaN ELSE [x EXCEPT !.n = -x.n]

Add(x, y) ==
    IF IsNaN(x) \/ IsNaN(y) THEN NaN
    ELSE IF x.n = 0 THEN y
    ELSE IF y.n = 0 THEN x
    ELSE IF x.r = y.r
    THEN LET g == GCD(x.d, y.d)
         IN  Mk(x.n * (y.d \div g) + y.n * (x.d \div g), (x.d \div g) * y.d, x.r)
    ELSE Unrepresentable

Sub(x, y) == Add(x, Neg(y))

Mul(x, y) ==
    IF IsNaN(x) \/ IsNaN(y) THEN NaN
    ELSE IF x.n = 0 \/ y.n = 0 THEN Zero
    ELSE LET g  == GCD(x.r, y.r)
             g1 == GCD(Abs(x.n), y.d)
             g2 == GCD(Abs(y.n), x.d)
         IN  Mk((x.n \div g1) * (y.n \div g2) * g,
                (x.d \div g2) * (y.d \div g1),
                (x.r \div g) * (y.r \div g))

\* 1/x for x # 0:  d / (n sqrt(r)) = d sqrt(r) / (n r)
Inv(x) == Mk(x.d, x.n * x.r, x.r)

\* IEEE division: 0/0 and NaN operands give NaN
Div(x, y) ==
    IF IsNaN(x) \/ IsNaN(y) THEN NaN
    ELSE IF y.n = 0 THEN (IF x.n = 0 THEN NaN ELSE Unrepresentable)
    ELSE Mul(x, Inv(y))

\* floor(sqrt(k)) by bisection on lo..hi (lo*lo <= k < (hi+1)*(hi+1))
RECURSIVE ISqrt(_, _, _)
ISqrt(k, lo, hi) ==
    IF lo = hi THEN lo
    ELSE LET mid == (lo + hi + 1) \div 2
         IN  IF mid <= k \div mid THEN ISqrt(k, mid, hi) ELSE ISqrt(k, lo, mid - 1)

\* the largest s with s*s dividing k (k >= 1)
SquarePart(k) ==
    LET S == {s \in 1..ISqrt(k, 1, k) : k % (s * s) = 0}
    IN  CHOOSE s \in S : \A t \in S : t <= s

\* sqrt of a non-negative rational n/d, n = sn^2 n', d = sd^2 d':
\* (sn / (sd d')) sqrt(n' d')
Sqrt(x) ==
    IF IsNaN(x) THEN NaN
    ELSE IF x.n = 0 THEN Zero
    ELSE IF x.r # 1 \/ x.n < 0 THEN Unrepresentable
    ELSE LET sn == SquarePart(x.n)
             sd == SquarePart(x.d)
             n1 == x.n \div (sn * sn)
             d1 == x.d \div (sd * sd)
         IN  Mk(sn, sd * d1, n1 * d1)

Sign(x) == IF x.n > 0 THEN 1 ELSE IF x.n < 0 THEN -1 ELSE 0

\* x < y; every comparison with NaN is false
Less(x, y) ==
    IF IsNaN(x) \/ IsNaN(y) THEN FALSE
    ELSE IF x.r = y.r THEN x.n * y.d < y.n * x.d
    ELSE IF Sign(x) # Sign(y) THEN Sign(x) < Sign(y)
    ELSE LET sx == Rat(x.n * x.n * x.r, x.d * x.d)
             sy == Rat(y.n * y.n * y.r, y.d * y.d)
             lt == sx.n * sy.d < sy.n * sx.d
             gt == sy.n * sx.d < sx.n * sy.d
         IN  IF Sign(x) > 0 THEN lt ELSE gt

Leq(x, y) == ~IsNaN(x) /\ ~IsNaN(y) /\ ~Less(y, x)

\* np.minimum / np.maximum: NaN propagates
Minimum(x, y) == IF IsNaN(x) \/ IsNaN(y) THEN NaN ELSE IF Less(y, x) THEN y ELSE x
Maximum(x, y) == IF IsNaN(x) \/ IsNaN(y) THEN NaN ELSE IF Less(x, y) THEN y ELSE x

-----------------------------------------------------------------------------
(* Arrays: a 2-D array is the sequence of its rows.                        *)

\* a function on 1..n as the tuple of its values (each evaluated once)
Tuple(f) == f \o <<>>

Rows(A) == Len(A)
Cols(A) == Len(A[1])
Shape(A) == <<Rows(A), Cols(A)>>

RECURSIVE SumSeq(_)
SumSeq(s) == IF Len(s) = 0 THEN Zero ELSE Add(Head(s), SumSeq(Tail(s)))

Col(A, j) == Tuple([i \in 1..(Rows(A)) |-> A[i][j]])
Dot(u, v) == SumSeq(Tuple([i \in 1..(Len(u)) |-> Mul(u[i], v[i])]))
Square(x) == Mul(x, x)

\* np.zeros((rows, cols))
zeros(rows, cols) == Tuple([i \in 1..(rows) |-> Tuple([j \in 1..(cols) |->
        Zero])])
\* np.ones(len)
ones(len) == Tuple([j \in 1..(len) |-> One])

\* a 1-D array as an (len, 1) column
AsColumn(v) == Tuple([i \in 1..(Len(v)) |-> Tuple([j \in 1..(1) |->
        v[i]])])
\* A[:, j] = v
SetCol(A, j, v) ==
    Tuple([i \in 1..(Rows(A)) |-> Tuple([c \in 1..(Cols(A)) |->
        IF c = j THEN v[i] ELSE A[i][c]])])

\* A.mean(axis=0)
mean0(A) == Tuple([j \in 1..(Cols(A)) |-> Div(SumSeq(Col(A, j)), Int2Num(Rows(A)))])
\* A - v and A / v for a 1-D v of length Cols(A) (broadcast over rows)
SubRow(A, v) == Tuple([i \in 1..(Rows(A)) |-> Tuple([j \in 1..(Cols(A)) |->
        Sub(A[i][j], v[j])])])
DivRow(A, v) == Tuple([i \in 1..(Rows(A)) |-> Tuple([j \in 1..(Cols(A)) |->
        Div(A[i][j], v[j])])])
\* A.std(axis=0, ddof=1): with one row the variance is 0/0
std0(A) ==
    LET c == SubRow(A, mean0(A))
    IN  Tuple([j \in 1..(Cols(A)) |-> Sqrt(Div(Dot(Col(c, j), Col(c, j)), Int2Num(Rows(A) - 1)))])
\* v[v == 0.0] = 1.0
ZeroToOne(v) == Tuple([j \in 1..(Len(v)) |-> IF IsZero(v[j]) THEN One ELSE v[j]])

\* np.sum(np.square(A))
SumSq(A) == SumSeq(Tuple([i \in 1..(Rows(A)) |-> Dot(A[i], A[i])]))
\* np.linalg.norm of a 1-D array
norm(v) == Sqrt(Dot(v, v))
\* v * s and v / s for a scalar s
Scale(v, s) == Tuple([i \in 1..(Len(v)) |-> Mul(v[i], s)])
Unscale(v, s) == Tuple([i \in 1..(Len(v)) |-> Div(v[i], s)])
\* u - v
VSub(u, v) == Tuple([i \in 1..(Len(u)) |-> Sub(u[i], v[i])])
\* A @ v for a 1-D v, and v @ A
MatVec(A, v) == Tuple([i \in 1..(Rows(A)) |-> Dot(A[i], v)])
VecMat(v, A) == Tuple([j \in 1..(Cols(A)) |-> Dot(v, Col(A, j))])
\* A - t[:, newaxis] @ p[newaxis, :]
Deflate(A, t, p) ==
    Tuple([i \in 1..(Rows(A)) |-> Tuple([j \in 1..(Cols(A)) |->
        Sub(A[i][j], Mul(t[i], p[j]))])])

\* np.min / np.max over all entries (NaN propagates)
RECURSIVE FoldMin(_)
FoldMin(s) == IF Len(s) = 1 THEN s[1] ELSE Minimum(s[1], FoldMin(Tail(s)))
RECURSIVE FoldMax(_)
FoldMax(s) == IF Len(s) = 1 THEN s[1] ELSE Maximum(s[1], FoldMax(Tail(s)))
RECURSIVE Flatten(_)
Flatten(A) == IF Len(A) = 0 THEN <<>> ELSE Head(A) \o Flatten(Tail(A))
npmin(A) == FoldMin(Flatten(A))
npmax(A) == FoldMax(Flatten(A))

HasNaN(A) == \E i \in 1..Rows(A) : \E j \in 1..Cols(A) : IsNaN(A[i][j])
AllFinite(A) == ~HasNaN(A)

-----------------------------------------------------------------------------
(* The estimator.  An instance is a record of its attributes.              *)

\* OPLS.__init__: the three parameters, every other attribute None
OPLS(n_components, scale, copy) ==
    [n_components |-> n_components, scale |-> scale, copy |-> copy,
     b_ |-> None, y_weights_ |-> None, y_scores_ |-> None, x_scores_ |-> None,
     x_loadings_ |-> None, x_weights_ |-> None, orthogonal_x_scores_ |-> None,
     orthogonal_x_loadings_ |-> None, orthogonal_x_weights_ |-> None,
     coef_ |-> None, x_mean_ |-> None, y_mean_ |-> None, y_min_ |-> None,
     y_max_ |-> None, x_std_ |-> None, y_std_ |-> None, sum_sq_X_ |-> None,
     sum_sq_Y_ |-> None, r_squared_X_ |-> None, r_squared_Y_ |-> None,
     residual_sum_sq_Y_ |-> None]

\* the attributes fit assigns (b_ is initialised and never assigned)
StateFields ==
    {"y_weights_", "y_scores_", "x_scores_", "x_loadings_", "x_weights_",
     "orthogonal_x_scores_", "orthogonal_x_loadings_", "orthogonal_x_weights_",
     "coef_", "x_mean_", "y_mean_", "y_min_", "y_max_", "x_std_", "y_std_",
     "sum_sq_X_", "sum_sq_Y_", "r_squared_X_", "r_squared_Y_",
     "residual_sum_sq_Y_"}

\* sklearn's check_array with its default force_all_finite: NaN is refused
check_array_ok(X) == AllFinite(X.a)

\* Variant of AfterCall (C5): the working array is always the caller's own
\* buffer, as if check_array never copied.
AfterCallShared(copy, before, working) == working

\* What the caller's array holds after a method that worked on
\* check_array(X, copy=copy): the copy absorbed the in-place writes, or the
\* caller's own buffer took them.
AfterCall(copy, before, working) == IF copy THEN before ELSE working

\* an in-place  A -= v  /  A /= v  with a float64 right-hand side: numpy
\* refuses to cast the float64 result into an integer array
InPlaceOk(A) == A.dtype = "float"

\* OPLS._center_scale_xy, on the arrays themselves (X and Y are updated in
\* place); outcome "TypeError" is numpy's casting error of  X -= x_mean
center_scale_xy(X, Y, scale) ==
    Only({Only({Only({
        IF ~InPlaceOk(X)
        THEN [outcome |-> "TypeError", X |-> X, Y |-> Y]
        ELSE IF ~InPlaceOk(Y)
        THEN [outcome |-> "TypeError", X |-> [X EXCEPT !.a = X1], Y |-> Y]
        ELSE [outcome |-> "ok",
              X |-> [X EXCEPT !.a = IF scale THEN DivRow(X1, x_std) ELSE X1],
              Y |-> [Y EXCEPT !.a = IF scale THEN DivRow(Y1, y_std) ELSE Y1],
              x_mean |-> x_mean, y_mean |-> y_mean, x_std |-> x_std, y_std |-> y_std]
        : x_std \in {IF scale THEN ZeroToOne(std0(X1)) ELSE ones(Cols(X.a))},
          y_std \in {IF scale THEN ZeroToOne(std0(Y1)) ELSE ones(Cols(Y.a))}})
        : X1 \in {SubRow(X.a, x_mean)}, Y1 \in {SubRow(Y.a, y_mean)}})
        : x_mean \in {mean0(X.a)}, y_mean \in {mean0(Y.a)}})

\* v / norm(v)
Normalize(v) == Unscale(v, norm(v))

\* w = ((Y_res.T @ X_res) / (Y_res.T @ Y_res)).T;  w = w / norm(w)
PLSWeight(X_res, Y_res) ==
    LET y == Col(Y_res, 1)
    IN  Normalize(Unscale(VecMat(y, X_res), Dot(y, y)))
\* t = (X_res @ w) / (w.T @ w)
PLSScore(X_res, w) == Unscale(MatVec(X_res, w), Dot(w, w))
\* p = ((t.T @ X_res) / (t.T @ t)).T
PLSLoading(X_res, t) == Unscale(VecMat(t, X_res), Dot(t, t))
\* w_ortho = p - ((w.T @ p) / (w.T @ w)) * w;  w_ortho = w_ortho / norm(w_ortho)
OrthoWeight(w, p) == Normalize(VSub(p, Scale(w, Div(Dot(w, p), Dot(w, w)))))

\* the body of fit's loop for component i (1-based), on the loop's state
OrthoStep(st, Y_res, i) ==
    Only({Only({Only({Only({Only({
        [X_res   |-> Deflate(st.X_res, to, po),
         w_ortho |-> SetCol(st.w_ortho, i, wo),
         t_ortho |-> SetCol(st.t_ortho, i, to),
         p_ortho |-> SetCol(st.p_ortho, i, po)]
        : po \in {PLSLoading(st.X_res, to)}})
        : to \in {PLSScore(st.X_res, wo)}})
        : wo \in {OrthoWeight(w, p)}})
        : p \in {PLSLoading(st.X_res, PLSScore(st.X_res, w))}})
        : w \in {PLSWeight(st.X_res, Y_res)}})

\* for i in range(0, self.n_components)
RECURSIVE OrthoLoop(_, _, _, _)
OrthoLoop(st, Y_res, i, k) ==
    IF i > k THEN st
    ELSE Only({OrthoLoop(st1, Y_res, i + 1, k) : st1 \in {OrthoStep(st, Y_res, i)}})

\* Variant of OrthoWidth (C7): the arrays are allocated one column too wide.
OrthoWidthPlusOne(obj) == obj.n_components + 1

\* the width fit gives w_ortho, p_ortho and t_ortho
OrthoWidth(obj) == obj.n_components

\* OPLS.fit from the centered arrays on: every attribute it assigns
FitState(obj, X, Y, cs) ==
    Only({Only({Only({Only({Only({Only({Only({Only({Only({
        [obj EXCEPT
            !.x_mean_ = cs.x_mean, !.y_mean_ = cs.y_mean,
            !.x_std_ = cs.x_std, !.y_std_ = cs.y_std,
            !.y_min_ = npmin(Y), !.y_max_ = npmax(Y),
            !.y_weights_ = c, !.y_scores_ = AsColumn(u),
            !.x_scores_ = AsColumn(t), !.x_loadings_ = AsColumn(p),
            !.x_weights_ = AsColumn(w),
            !.orthogonal_x_scores_ = st.t_ortho,
            !.orthogonal_x_loadings_ = st.p_ortho,
            !.orthogonal_x_weights_ = st.w_ortho,
            !.sum_sq_X_ = SS_X, !.sum_sq_Y_ = SS_Y,
            !.coef_ = AsColumn(B_pls),
            !.r_squared_X_ = r2X, !.r_squared_Y_ = r2Y,
            !.residual_sum_sq_Y_ = Mul(Mul(Int2Num(-1), Sub(r2Y, One)), SS_Y)]
        : r2X \in {Div(Mul(Dot(t, t), Dot(p, p)), SS_X)},
          r2Y \in {Div(Mul(Mul(Dot(t, t), Square(b_l)), Square(c)), SS_Y)}})
        : B_pls \in {Scale(Scale(Scale(w, Div(One, Dot(p, w))), b_l), c)}})
        : b_l \in {Mul(Div(One, Dot(t, t)), Dot(u, t))}})
        : p \in {PLSLoading(st.X_res, t)}})
        : u \in {Unscale(Scale(Col(Y_res, 1), c), Square(c))}})
        : c \in {Div(Dot(t, Col(Y_res, 1)), Dot(t, t))}})
        : t \in {PLSScore(st.X_res, w)}})
        : w \in {PLSWeight(st.X_res, Y_res)}})
        : st \in {OrthoLoop([X_res   |-> SubRow(X, mean0(X)),
                             w_ortho |-> zeros(Cols(X), OrthoWidth(obj)),
                             p_ortho |-> zeros(Cols(X), OrthoWidth(obj)),
                             t_ortho |-> zeros(Rows(X), OrthoWidth(obj))],
                            SubRow(Y, mean0(Y)), 1, obj.n_components)},
          Y_res \in {SubRow(Y, mean0(Y))},
          SS_Y \in {SumSq(SubRow(Y, mean0(Y)))},
          SS_X \in {SumSq(SubRow(X, mean0(X)))}})

\* Variant of fit (C3): the shape of Y is checked after _center_scale_xy
\* has run and its means and deviations are stored.
fitCheckingShapeLate(obj, X, Y) ==
    IF ~check_array_ok(X) \/ ~check_array_ok(Y)
    THEN [outcome |-> "ValueError: check_array", self |-> obj, X |-> X, Y |-> Y]
    ELSE Only({IF cs.outcome # "ok"
               THEN [outcome |-> cs.outcome, self |-> obj, X |-> cs.X, Y |-> cs.Y]
               ELSE IF Shape(Y.a) # <<Rows(X.a), 1>>
               THEN [outcome |-> "ValueError: shape",
                     self |-> [obj EXCEPT !.x_mean_ = cs.x_mean, !.y_mean_ = cs.y_mean,
                                          !.x_std_ = cs.x_std, !.y_std_ = cs.y_std],
                     X |-> cs.X, Y |-> cs.Y]
               ELSE [outcome |-> "ok", self |-> FitState(obj, cs.X.a, cs.Y.a, cs),
                     X |-> cs.X, Y |-> cs.Y]
               : cs \in {center_scale_xy(X, Y, obj.scale)}})

\* Variant of fit (C4): x_mean_ is stored before the in-place centering that
\* can fail.
fitStoringMeanFirst(obj, X, Y) ==
    IF ~check_array_ok(X) \/ ~check_array_ok(Y)
    THEN [outcome |-> "ValueError: check_array", self |-> obj, X |-> X, Y |-> Y]
    ELSE IF Shape(Y.a) # <<Rows(X.a), 1>>
    THEN [outcome |-> "ValueError: shape", self |-> obj, X |-> X, Y |-> Y]
    ELSE Only({IF cs.outcome # "ok"
               THEN [outcome |-> cs.outcome, self |-> [obj EXCEPT !.x_mean_ = mean0(X.a)],
                     X |-> cs.X, Y |-> cs.Y]
               ELSE [outcome |-> "ok", self |-> FitState(obj, cs.X.a, cs.Y.a, cs),
                     X |-> cs.X, Y |-> cs.Y]
               : cs \in {center_scale_xy(X, Y, obj.scale)}})

\* OPLS.fit: the outcome, the instance after the call, and the arrays
\* check_array returned as the call leaves them
fit(obj, X, Y) ==
    IF ~check_array_ok(X) \/ ~check_array_ok(Y)
    THEN [outcome |-> "ValueError: check_array", self |-> obj, X |-> X, Y |-> Y]
    ELSE IF Shape(Y.a) # <<Rows(X.a), 1>>
    THEN [outcome |-> "ValueError: shape", self |-> obj, X |-> X, Y |-> Y]
    ELSE Only({IF cs.outcome # "ok"
               THEN [outcome |-> cs.outcome, self |-> obj, X |-> cs.X, Y |-> cs.Y]
               ELSE [outcome |-> "ok", self |-> FitState(obj, cs.X.a, cs.Y.a, cs),
                     X |-> cs.X, Y |-> cs.Y]
               : cs \in {center_scale_xy(X, Y, obj.scale)}})

-----------------------------------------------------------------------------
(* Apply-time methods.  Each returns [outcome, ret, X]: X is the caller's   *)
(* array as the call leaves it.                                            *)

Raise(e, X) == [outcome |-> e, ret |-> None, X |-> X]
Return(v, X) == [outcome |-> "ok", ret |-> v, X |-> X]

\* sklearn's check_is_fitted(self, attr): hasattr(self, attr)
check_is_fitted(obj, attr) == attr \in DOMAIN obj

\* one pass of transform's loop, component f (1-based):
\* z - (z @ w[:, f][:, newaxis] / (w[:, f].T @ w[:, f])) @ p[:, f][newaxis, :]
FilterStep(obj, z, f) ==
    LET w == Col(obj.orthogonal_x_weights_, f)
        p == Col(obj.orthogonal_x_loadings_, f)
    IN  Deflate(z, Unscale(MatVec(z, w), Dot(w, w)), p)

RECURSIVE FilterLoop(_, _, _)
FilterLoop(obj, z, f) ==
    IF f > obj.n_components THEN z
    ELSE Only({FilterLoop(obj, z1, f + 1) : z1 \in {FilterStep(obj, z, f)}})

\* Variant of CenterBatch (C10): the batch is not centered.
CenterBatchOmitted(X) == X

\* X - X.mean(axis=0)
CenterBatch(X) == SubRow(X, mean0(X))

\* Variant of transform (C1): the filter is skipped when no orthogonal
\* weights are stored.
transformSkippingFilter(obj, X) ==
    IF ~check_array_ok(X) THEN Raise("ValueError: check_array", X)
    ELSE IF obj.orthogonal_x_weights_ = None THEN Return(CenterBatch(X.a), X)
    ELSE IF Cols(X.a) # Rows(obj.orthogonal_x_weights_)
    THEN Raise("ValueError: matmul", X)
    ELSE Return(FilterLoop(obj, CenterBatch(X.a), 1), X)

\* OPLS.transform
transform(obj, X) ==
    IF ~check_array_ok(X) THEN Raise("ValueError: check_array", X)
    ELSE IF obj.n_components >= 1 /\ obj.orthogonal_x_weights_ = None
    THEN Raise("TypeError: NoneType", X)
    ELSE IF obj.n_components >= 1 /\ Cols(X.a) # Rows(obj.orthogonal_x_weights_)
    THEN Raise("ValueError: matmul", X)
    ELSE Return(FilterLoop(obj, CenterBatch(X.a), 1), X)

\* np.dot(z, coef_) + y_mean_
Linear(obj, z) ==
    Tuple([i \in 1..(Rows(z)) |-> Tuple([j \in 1..(1) |->
        Add(Dot(z[i], Col(obj.coef_, 1)), obj.y_mean_[1])])])

\* OPLS.predict
predict(obj, X) ==
    IF ~check_is_fitted(obj, "x_mean_") THEN Raise("NotFittedError", X)
    ELSE LET z == transform(obj, X)
         IN  IF z.outcome # "ok" THEN z
             ELSE IF obj.coef_ = None THEN Raise("TypeError: NoneType", z.X)
             ELSE Return(Linear(obj, z.ret), z.X)

\* np.clip(A, lo, hi) = minimum(maximum(A, lo), hi)
clip(A, lo, hi) ==
    Tuple([i \in 1..(Rows(A)) |-> Tuple([j \in 1..(Cols(A)) |->
        Minimum(Maximum(A[i][j], lo), hi)])])

\* 0.5 * np.clip(y_pred, -1, 1) + 1
Proba(y_pred) ==
    LET c == clip(y_pred, Int2Num(-1), One)
    IN  Tuple([i \in 1..(Rows(c)) |-> Tuple([j \in 1..(Cols(c)) |->
        Add(Mul(Rat(1, 2), c[i][j]), One)])])

\* OPLS.predict_proba
predict_proba(obj, X) ==
    LET y_pred == predict(obj, X)
    IN  IF y_pred.outcome # "ok" THEN y_pred ELSE Return(Proba(y_pred.ret), y_pred.X)

\* numpy broadcasting of a 2-D array against a 1-D one (over the columns)
BroadcastCols(A, v) == Cols(A) = Len(v) \/ Cols(A) = 1 \/ Len(v) = 1
BSubRow(A, v) ==
    Tuple([i \in 1..(Rows(A)) |-> Tuple([j \in 1..(IF Cols(A) = 1 THEN Len(v) ELSE Cols(A)) |->
        Sub(A[i][IF Cols(A) = 1 THEN 1 ELSE j], v[IF Len(v) = 1 THEN 1 ELSE j])])])
BDivRow(A, v) ==
    Tuple([i \in 1..(Rows(A)) |-> Tuple([j \in 1..(IF Cols(A) = 1 THEN Len(v) ELSE Cols(A)) |->
        Div(A[i][IF Cols(A) = 1 THEN 1 ELSE j], v[IF Len(v) = 1 THEN 1 ELSE j])])])
\* A @ B
MatMul(A, B) == Tuple([i \in 1..(Rows(A)) |-> VecMat(A[i], B)])
\* A * s
MatScale(A, s) == Tuple([i \in 1..(Rows(A)) |-> Scale(A[i], s)])

\* OPLS.orthogonal_transform (Y may be None)
orthogonal_transform(obj, X, Y, copy) ==
    IF ~check_is_fitted(obj, "x_mean_") THEN Raise("NotFittedError", X)
    ELSE IF ~check_array_ok(X) THEN Raise("ValueError: check_array", X)
    ELSE IF obj.x_mean_ = None THEN Raise("TypeError: NoneType", X)
    ELSE IF ~BroadcastCols(X.a, obj.x_mean_) THEN Raise("ValueError: broadcast", X)
    ELSE LET xs == BDivRow(BSubRow(X.a, obj.x_mean_), obj.x_std_)
         IN  IF Cols(xs) # Rows(obj.orthogonal_x_weights_)
             THEN Raise("ValueError: dot", X)
             ELSE LET x_scores == MatMul(xs, obj.orthogonal_x_weights_)
                  IN  IF Y = None THEN Return(<<x_scores>>, X)
                      ELSE IF ~check_array_ok(Y) THEN Raise("ValueError: check_array", X)
                      ELSE Return(<<x_scores,
                                    MatScale(BDivRow(BSubRow(Y.a, obj.y_mean_), obj.y_std_),
                                             obj.y_weights_)>>, X)

\* numpy broadcasting of y (r x c) against a prediction (n x 1)
BroadcastRows(y, P) == Rows(y) = Rows(P) \/ Rows(y) = 1 \/ Rows(P) = 1
\* np.sum(np.square(y - P))
SquaredError(y, P) ==
    LET n == IF Rows(y) = 1 THEN Rows(P) ELSE Rows(y)
    IN  SumSeq(Flatten(Tuple([i \in 1..(n) |-> Tuple([j \in 1..(Cols(y)) |->
        Square(Sub(y[IF Rows(y) = 1 THEN 1 ELSE i][j],
                           P[IF Rows(P) = 1 THEN 1 ELSE i][1]))])])))

\* OPLS.press
press(obj, X, y) ==
    LET P == predict(obj, X)
    IN  IF P.outcome # "ok" THEN P
        ELSE IF ~BroadcastRows(y.a, P.ret) THEN Raise("ValueError: broadcast", P.X)
        ELSE Return(SquaredError(y.a, P.ret), P.X)

\* OPLS.pressd
pressd(obj, X, y) ==
    LET P == predict(obj, X)
    IN  IF P.outcome # "ok" THEN P
        ELSE IF ~BroadcastRows(y.a, P.ret) THEN Raise("ValueError: broadcast", P.X)
        ELSE Return(SquaredError(y.a, clip(P.ret, obj.y_min_, obj.y_max_)), P.X)

\* OPLS.r2d_score: the arguments it hands to sklearn's r2_score
r2d_score(obj, X, y) ==
    LET P == predict(obj, X)
    IN  IF P.outcome # "ok" THEN P
        ELSE Return([scorer |-> "r2_score", y_true |-> y.a,
                     y_pred |-> clip(P.ret, Int2Num(-1), One)], P.X)

\* np.sign(A).astype(float)
sign(A) ==
    Tuple([i \in 1..(Rows(A)) |-> Tuple([j \in 1..(Cols(A)) |->
        IF IsNaN(A[i][j]) THEN NaN ELSE Int2Num(Sign(A[i][j]))])])

\* OPLS.discriminator_accuracy_score: the arguments it hands to accuracy_score
discriminator_accuracy_score(obj, X, y) ==
    LET P == predict(obj, X)
    IN  IF P.outcome # "ok" THEN P
        ELSE Return([scorer |-> "accuracy_score", y_true |-> y.a,
                     y_pred |-> sign(P.ret)], P.X)

\* an ndarray of the given dtype from integer entries
Arr(dtype, A) ==
    [dtype |-> dtype,
     a |-> Tuple([i \in 1..(Len(A)) |-> Tuple([j \in 1..(Len(A[1])) |->
        Int2Num(A[i][j])])])]

-----------------------------------------------------------------------------
(* The inputs a caller passes.  Every column has a rational sample         *)
(* standard deviation, so that the scaled data stay in the number form.    *)

\* 3 samples, 2 features, float64
XA == Arr("float", <<<<0, 1>>, <<1, 0>>, <<2, 2>>>>)
\* a single sample
XC == Arr("float", <<<<3, 4>>>>)
\* a single feature
XD == Arr("float", <<<<1>>, <<2>>, <<3>>>>)
\* the end-to-end scenario, as the integers it is written with
XE == Arr("int", <<<<1, 5>>, <<2, 4>>, <<3, 6>>, <<4, 3>>, <<5, 7>>, <<6, 2>>>>)
\* 4 samples, 3 features, float64
XF == Arr("float", <<<<0, 0, 1>>, <<3, 1, 0>>, <<0, 3, 3>>, <<2, 3, 3>>>>)
\* a non-finite entry
XN == [dtype |-> "float", a |-> <<<<NaN, One>>, <<Zero, One>>, <<One, Zero>>>>]

YA == Arr("float", <<<<2>>, <<0>>, <<4>>>>)
\* the same targets as integers
YI == Arr("int", <<<<2>>, <<0>>, <<4>>>>)
\* two response columns
YM == Arr("float", <<<<1, 0>>, <<2, 1>>, <<4, 0>>>>)
\* zero variance
YC == Arr("float", <<<<2>>, <<2>>, <<2>>>>)
\* one sample
YS == Arr("float", <<<<5>>>>)
YE == Arr("int", <<<<1>>, <<2>>, <<3>>, <<4>>, <<5>>, <<6>>>>)
YF == Arr("float", <<<<2>>, <<2>>, <<0>>, <<2>>>>)

Xs == {XA, XC, XD, XE, XF, XN}
Ys == {YA, YI, YM, YC, YS, YE, YF}

-----------------------------------------------------------------------------
(* The state: the instance, where control is (with the caller, or just     *)
(* back from a method), the last call with its outcome and the caller's    *)
(* arrays as the call left them, and the shape of the X of the last        *)
(* successful fit.                                                         *)

VARIABLES self, pc, call, trained
vars == <<self, pc, call, trained>>

Init ==
    /\ self \in {OPLS(k, s, c) : k \in 1..MaxComponents, s \in BOOLEAN, c \in BOOLEAN}
    /\ pc = "idle"
    /\ call = None
    /\ trained = None

\* a call of a method that assigns no attribute of the instance and never
\* writes to y
Applied(op, X, Y, r) ==
    /\ pc' = "returned"
    /\ call' = [op |-> op, X |-> X, Y |-> Y, outcome |-> r.outcome, ret |-> r.ret,
                X_after |-> r.X, Y_after |-> Y, pre |-> self]
    /\ UNCHANGED <<self, trained>>

Fit(X, Y) ==
    /\ pc = "idle"
    /\ \E r \in {fit(self, X, Y)} :
           /\ self' = r.self
           /\ call' = [op |-> "fit", X |-> X, Y |-> Y, outcome |-> r.outcome,
                       ret |-> IF r.outcome = "ok" THEN r.self ELSE None,
                       X_after |-> AfterCall(self.copy, X, r.X),
                       Y_after |-> AfterCall(self.copy, Y, r.Y), pre |-> self]
           /\ trained' = IF r.outcome = "ok" THEN Shape(X.a) ELSE trained
    /\ pc' = "returned"

\* self.fit(X, y).transform(X): transform reads the caller's X as fit left it
FitTransform(X, Y) ==
    /\ pc = "idle"
    /\ \E r \in {fit(self, X, Y)} :
       \E t \in {IF r.outcome = "ok"
                 THEN transform(r.self, AfterCall(self.copy, X, r.X))
                 ELSE Raise(r.outcome, AfterCall(self.copy, X, r.X))} :
           /\ self' = r.self
           /\ call' = [op |-> "fit_transform", X |-> X, Y |-> Y, outcome |-> t.outcome,
                       ret |-> t.ret, X_after |-> t.X,
                       Y_after |-> AfterCall(self.copy, Y, r.Y), pre |-> self]
           /\ trained' = IF r.outcome = "ok" THEN Shape(X.a) ELSE trained
    /\ pc' = "returned"

Transform(X) == pc = "idle" /\ Applied("transform", X, None, transform(self, X))
Predict(X) == pc = "idle" /\ Applied("predict", X, None, predict(self, X))
PredictProba(X) == pc = "idle" /\ Applied("predict_proba", X, None, predict_proba(self, X))
OrthogonalTransform(X, Y, copy) ==
    pc = "idle" /\ Applied("orthogonal_transform", X, Y, orthogonal_transform(self, X, Y, copy))
Press(X, y) == pc = "idle" /\ Applied("press", X, y, press(self, X, y))
Pressd(X, y) == pc = "idle" /\ Applied("pressd", X, y, pressd(self, X, y))
R2dScore(X, y) == pc = "idle" /\ Applied("r2d_score", X, y, r2d_score(self, X, y))
DiscriminatorAccuracyScore(X, y) ==
    pc = "idle" /\ Applied("discriminator_accuracy_score", X, y,
                           discriminator_accuracy_score(self, X, y))

\* the caller takes the result (or the exception) and is free to call again
Resume ==
    /\ pc = "returned"
    /\ pc' = "idle"
    /\ call' = None
    /\ UNCHANGED <<self, trained>>

Next ==
    \/ \E X \in Xs, Y \in Ys : Fit(X, Y)
    \/ \E X \in Xs, Y \in Ys : FitTransform(X, Y)
    \/ \E X \in Xs : Transform(X)
    \/ \E X \in Xs : Predict(X)
    \/ \E X \in Xs : PredictProba(X)
    \/ \E X \in Xs, Y \in Ys \cup {None}, copy \in BOOLEAN : OrthogonalTransform(X, Y, copy)
    \/ \E X \in Xs, y \in Ys : Press(X, y)
    \/ \E X \in Xs, y \in Ys : Pressd(X, y)
    \/ \E X \in Xs, y \in Ys : R2dScore(X, y)
    \/ \E X \in Xs, y \in Ys : DiscriminatorAccuracyScore(X, y)
    \/ Resume

Spec == Init /\ [][Next]_vars

-----------------------------------------------------------------------------
(* The claims.  A call is judged in the state right after it returns       *)
(* (pc = "returned"): call holds its arguments, its outcome and result,    *)
(* the caller's arrays as it left them and the instance as it found it.    *)

\* C1: on an instance no fit has ever succeeded on (n_components >= 1),
\* transform, predict and orthogonal_transform fail for every valid X: none
\* of them returns a value.
C1_UnfittedApplyFails ==
    (/\ pc = "returned"
     /\ trained = None
     /\ call.op \in {"transform", "predict", "orthogonal_transform"}
     /\ check_array_ok(call.X))
    => call.outcome # "ok"

\* C1 happens: orthogonal_transform on a never-fitted instance fails on the
\* absent x_mean_.
C1_Witness ==
    /\ pc = "returned"
    /\ trained = None
    /\ call.op = "orthogonal_transform"
    /\ call.X = XA
    /\ call.outcome = "TypeError: NoneType"

\* C2 (as claimed): every apply-time method called before a successful fit
\* fails with the "not fitted" error of the fitted-state check, and never
\* with an error from reading the None attributes.
C2_NotFittedErrorRaised ==
    (/\ pc = "returned"
     /\ trained = None
     /\ call.op \notin {"fit", "fit_transform"}
     /\ check_array_ok(call.X))
    => call.outcome = "NotFittedError"

\* C3: fit(X, Y) with a Y that is not of shape (n_samples, 1) fails with the
\* shape ValueError before anything is computed: no attribute is assigned
\* and neither array of the caller is centered or scaled, whatever copy is.
C3_ShapeErrorBeforeWork ==
    (/\ pc = "returned"
     /\ call.op \in {"fit", "fit_transform"}
     /\ check_array_ok(call.X) /\ check_array_ok(call.Y)
     /\ Shape(call.Y.a) # <<Rows(call.X.a), 1>>)
    => /\ call.outcome = "ValueError: shape"
       /\ self = call.pre
       /\ call.X_after = call.X
       /\ call.Y_after = call.Y

\* C3 happens: a two-column Y given to an instance that works on the
\* caller's own arrays (copy=False).
C3_Witness ==
    /\ pc = "returned"
    /\ call.op = "fit"
    /\ call.X = XA /\ call.Y = YM
    /\ ~call.pre.copy
    /\ call.outcome = "ValueError: shape"

C5_CallerArraysKept ==
    pc = "returned"
    => /\ (call.op \in {"fit", "fit_transform"} /\ call.pre.copy)
            => (call.X_after = call.X /\ call.Y_after = call.Y)
       /\ (call.op \in {"transform", "predict"}) => call.X_after = call.X

\* C5 happens: a successful fit of a copy=True instance on data that
\* centering changes.
C5_Witness ==
    /\ pc = "returned"
    /\ call.op = "fit"
    /\ call.pre.copy
    /\ call.outcome = "ok"
    /\ call.X = XA
    /\ call.X_after = XA

\* C6 (as claimed): fit accepts every finite 2-D X with a Y of shape
\* (n_samples, 1), integer-valued arrays included, and populates every
\* attribute.
C6_FitAcceptsFinite ==
    (/\ pc = "returned"
     /\ call.op = "fit"
     /\ check_array_ok(call.X) /\ check_array_ok(call.Y)
     /\ Shape(call.Y.a) = <<Rows(call.X.a), 1>>)
    => /\ call.outcome = "ok"
       /\ \A f \in StateFields : self[f] # None

\* C7: after a successful fit of an (n, m) X, the orthogonal weights and
\* loadings are (m, k), the orthogonal scores (n, k) and coef_ (m, 1), k the
\* instance's n_components.
C7_OrthogonalShapes ==
    trained # None
    => /\ Shape(self.orthogonal_x_weights_) = <<trained[2], self.n_components>>
       /\ Shape(self.orthogonal_x_loadings_) = <<trained[2], self.n_components>>
       /\ Shape(self.orthogonal_x_scores_) = <<trained[1], self.n_components>>
       /\ Shape(self.coef_) = <<trained[2], 1>>

\* C7 happens: the instance with the most components, fitted on 4 samples
\* of 3 features.
C7_Witness ==
    /\ pc = "idle"
    /\ trained = <<4, 3>>
    /\ self.n_components = MaxComponents

\* C8 (as claimed): every entry of predict_proba(X) that is a number lies in
\* [0, 1].
C8_ProbaInUnitInterval ==
    (/\ pc = "returned"
     /\ call.op = "predict_proba"
     /\ call.outcome = "ok")
    => \A i \in 1..Rows(call.ret) :
          \/ IsNaN(call.ret[i][1])
          \/ (Leq(Zero, call.ret[i][1]) /\ Leq(call.ret[i][1], One))

\* C9 (as claimed): after fit(X, Y), y_min_ and y_max_ (when numbers) are
\* the minimum and the maximum of Y as the caller supplied it.
C9_TrainingRangeStored ==
    (/\ pc = "returned"
     /\ call.op = "fit"
     /\ call.outcome = "ok"
     /\ ~IsNaN(self.y_min_) /\ ~IsNaN(self.y_max_))
    => /\ self.y_min_ = npmin(call.Y.a)
       /\ self.y_max_ = npmax(call.Y.a)

\* C10 (as claimed): on a fitted instance every column of transform(X) sums
\* to zero, so transform of a single row is the zero row, and predict of a
\* single row is y_mean_.
C10_BatchCentered ==
    (/\ pc = "returned"
     /\ trained # None
     /\ call.outcome = "ok")
    => /\ call.op = "transform"
            => \A j \in 1..Cols(call.ret) : SumSeq(Col(call.ret, j)) = Zero
       /\ (call.op = "predict" /\ Rows(call.X.a) = 1)
            => call.ret = <<<<self.y_mean_[1]>>>>

\* C10 (amended): the same, on a fitted instance whose orthogonal weights,
\* orthogonal loadings and coef_ are all finite.
C10_BatchCenteredWhenFinite ==
    (/\ pc = "returned"
     /\ trained # None
     /\ call.outcome = "ok"
     /\ AllFinite(self.orthogonal_x_weights_)
     /\ AllFinite(self.orthogonal_x_loadings_)
     /\ AllFinite(self.coef_))
    => /\ call.op = "transform"
            => \A j \in 1..Cols(call.ret) : SumSeq(Col(call.ret, j)) = Zero
       /\ (call.op = "predict" /\ Rows(call.X.a) = 1)
            => call.ret = <<<<self.y_mean_[1]>>>>

\* C10 happens: predict of a single row on a finite fitted instance whose
\* training mean of Y is not zero.
C10_Witness ==
    /\ pc = "returned"
    /\ call.op = "predict"
    /\ call.outcome = "ok"
    /\ call.X = XC
    /\ AllFinite(self.orthogonal_x_weights_)
    /\ AllFinite(self.orthogonal_x_loadings_)
    /\ AllFinite(self.coef_)
    /\ call.ret = <<<<Int2Num(2)>>>>
====
